---- MODULE Spec2Model ----
(***************************************************************************)
(* Model of src/rtl_sdr.c (POSIX build): the 2-frequency alternating       *)
(* recorder.  Three threads of control are modelled: main (which is also   *)
(* the delivery thread while rtlsdr_read_async runs), the retune worker    *)
(* and the asynchronous signal handler.  The transport (librtlsdr), the    *)
(* output sink (fwrite) and the operator (signals, command line) are the   *)
(* environment: their outcomes are drawn nondeterministically.             *)
(*                                                                         *)
(* All byte counts stay far below 2^31 in the configurations explored, so  *)
(* the uint32_t arithmetic of the source never wraps here.                 *)
(***************************************************************************)
EXTENDS Integers, Sequences, FiniteSets, TLC

(* ---- program constants ------------------------------------------------ *)
DEFAULT_BUF_LENGTH == 262144
MINIMAL_BUF_LENGTH == 512
MAXIMAL_BUF_LENGTH == 4194304
USB_CAP == 16384
DEFAULT_FREQ == 100000000

(* ---- bounds of the exploration ---------------------------------------- *)
\* number of times the transport invokes the handler / the sync loop reads
MaxChunks == 3

(* ---- inputs ----------------------------------------------------------- *)
\* -n values (samples) tried on the command line
NSamples == {10, 16, 256, 1000}
\* -n values used with two -f arguments: one -n (symmetric blocks) ...
SymNSamples == {1000, 4096, 16384}
\* ... or two -n (asymmetric blocks)
AsymNSamples == {<<4096, 8192>>, <<8192, 4096>>}
\* second -f values (0 Hz is a value atofs() can return)
Freq2Values == {433000000, 0}
\* -b values; 0 stands for "no -b given"
BlockOpts == {0, 512}

VARIABLES
    \* command line, as left by getopt (lines 269-320)
    freq_count, frequency1, frequency2, n_count, n_samples,
    blocksize_given, sync_mode,
    \* globals and locals of main
    do_exit, bytes_to_read, bytes_per_block, bytes_in_block,
    current_freq_idx, retune_freq, out_block_size, r,
    \* control state
    main_pc, cb_pc, len, worker_pc, freq, sig_pc, retune_mutex,
    \* transport / hardware (librtlsdr)
    async_cancel, dev_open, hw_freq,
    \* observation of the run (history)
    n_calls, chunks, written, short_write, posted, applied, taken,
    wake_seen

cfgvars == <<freq_count, frequency1, frequency2, n_count, n_samples,
             blocksize_given, sync_mode>>
vars == <<freq_count, frequency1, frequency2, n_count, n_samples,
          blocksize_given, sync_mode,
          do_exit, bytes_to_read, bytes_per_block, bytes_in_block,
          current_freq_idx, retune_freq, out_block_size, r,
          main_pc, cb_pc, len, worker_pc, freq, sig_pc, retune_mutex,
          async_cancel, dev_open, hw_freq,
          n_calls, chunks, written, short_write, posted, applied, taken,
          wake_seen>>

\* the history variables no action but its own writes
hist == <<taken, wake_seen>>

(* ---- pure helpers ----------------------------------------------------- *)
RECURSIVE gcd_u32(_, _)
\* lines 161-165: while (b) { t = b; b = a % b; a = t; } return a;
gcd_u32(a, b) == IF b = 0 THEN a ELSE gcd_u32(b, a % b)

\* lines 353-354: the two block sizes in bytes, from the -n values
BlockBytes(cnt, ns) ==
    <<ns[1] * 2, (IF cnt >= 2 THEN ns[2] ELSE ns[1]) * 2>>

\* the transfer size without the cap of line 368
ResolveChunkNoCap(bpb) == gcd_u32(bpb[1], bpb[2])

\* lines 357-369: the transfer size derived from the two block sizes
ResolveChunk(bpb) == gcd_u32(gcd_u32(bpb[1], bpb[2]), USB_CAP)

\* lines 384-393: out-of-range transfer sizes fall back to the default
RangeCheck(obs) ==
    IF obs < MINIMAL_BUF_LENGTH \/ obs > MAXIMAL_BUF_LENGTH
    THEN DEFAULT_BUF_LENGTH ELSE obs

\* a handler that never truncates the chunk to the remaining cap
TruncatedNever(btr, l) == l

\* lines 195-196 and 468-469: the length written for a chunk of l bytes under a
\* remaining cap of btr bytes (0 = no cap)
Truncated(btr, l) == IF btr > 0 /\ btr < l THEN btr ELSE l

\* chunk lengths the transport may deliver for a transfer size c: a full
\* transfer or half a transfer; with one -f also a 32-byte fragment (left
\* out of the two -f runs, whose interleavings are the costly ones)
ChunkLens(c, fc) == {c, c \div 2} \cup (IF fc >= 2 THEN {} ELSE {32})

\* what fwrite may report for a request of n bytes: all of it, or (short
\* write) only half of it
FullWrite(n) == n
ShortWrite(n) == n \div 2

(* ---- initial states: after getopt, before line 322 -------------------- *)
Init ==
    /\ freq_count \in {1, 2}
    /\ frequency1 = DEFAULT_FREQ
    /\ frequency2 \in (IF freq_count = 2 THEN Freq2Values ELSE {DEFAULT_FREQ})
    /\ n_count \in {0, 1, 2}
    /\ n_samples \in
         IF n_count = 0 THEN {<<0, 0>>}
         ELSE IF freq_count = 1
              THEN {<<a, 0>> : a \in NSamples}
              ELSE IF n_count = 1
                   THEN {<<a, 0>> : a \in SymNSamples}
                   ELSE AsymNSamples
    /\ (freq_count = 1 => n_count < 2)
    /\ out_block_size \in
         IF freq_count = 1 THEN {IF b = 0 THEN DEFAULT_BUF_LENGTH ELSE b : b \in BlockOpts}
         ELSE {DEFAULT_BUF_LENGTH}
    /\ blocksize_given = IF out_block_size = DEFAULT_BUF_LENGTH THEN 0 ELSE 1
    /\ sync_mode \in {0, 1}
    /\ do_exit = 0
    /\ bytes_to_read = 0
    /\ bytes_per_block = <<0, 0>>
    /\ bytes_in_block = 0
    /\ current_freq_idx = 0
    /\ retune_freq = 0
    /\ r = 0
    /\ main_pc = "mode"
    /\ cb_pc = "idle"
    /\ len = 0
    /\ worker_pc = "none"
    /\ freq = 0
    /\ sig_pc = "idle"
    /\ retune_mutex = "free"
    /\ async_cancel = FALSE
    /\ dev_open = FALSE
    /\ hw_freq = 0
    /\ n_calls = 0
    /\ chunks = <<>>
    /\ written = 0
    /\ short_write = FALSE
    /\ posted = <<>>
    /\ applied = <<>>
    /\ taken = <<>>
    /\ wake_seen = "none"

(* ---- main: mode selection and chunk-size resolution ------------------- *)
\* lines 332-382
MainMode ==
    /\ main_pc = "mode"
    /\ IF freq_count >= 2
       THEN IF n_count = 0
            THEN \* usage(): exit(1) before any hardware is touched
                 /\ main_pc' = "usage"
                 /\ UNCHANGED <<bytes_per_block, bytes_to_read, out_block_size>>
            ELSE /\ bytes_per_block' = BlockBytes(n_count, n_samples)
                 /\ bytes_to_read' = 0
                 /\ out_block_size' =
                      IF blocksize_given = 0
                      THEN ResolveChunk(bytes_per_block')
                      ELSE out_block_size
                 /\ main_pc' = "range"
       ELSE /\ bytes_to_read' = IF n_count >= 1 THEN n_samples[1] * 2 ELSE 0
            /\ main_pc' = "range"
            /\ UNCHANGED <<bytes_per_block, out_block_size>>
    /\ UNCHANGED <<cfgvars, hist, do_exit, bytes_in_block, current_freq_idx,
                   retune_freq, r, cb_pc, len, worker_pc, freq, sig_pc,
                   retune_mutex, async_cancel, dev_open, hw_freq,
                   n_calls, chunks, written, short_write, posted, applied>>

\* lines 384-393
MainRange ==
    /\ main_pc = "range"
    /\ out_block_size' = RangeCheck(out_block_size)
    /\ main_pc' = "open"
    /\ UNCHANGED <<cfgvars, hist, do_exit, bytes_to_read, bytes_per_block,
                   bytes_in_block, current_freq_idx, retune_freq, r,
                   cb_pc, len, worker_pc, freq, sig_pc, retune_mutex,
                   async_cancel, dev_open, hw_freq,
                   n_calls, chunks, written, short_write, posted, applied>>

\* lines 405-457: open the device, install the handlers, tune to frequency1
MainTune ==
    /\ main_pc = "open"
    /\ dev_open' = TRUE
    /\ hw_freq' = frequency1
    /\ main_pc' = IF sync_mode = 1 THEN "sync" ELSE "create"
    /\ UNCHANGED <<cfgvars, hist, do_exit, bytes_to_read, bytes_per_block,
                   bytes_in_block, current_freq_idx, retune_freq,
                   out_block_size, r, cb_pc, len, worker_pc, freq, sig_pc,
                   retune_mutex, async_cancel,
                   n_calls, chunks, written, short_write, posted, applied>>

(* ---- the block accountant and the post (lines 226-239) --------------- *)
\* the accountant with the boundary test written > instead of >=
AccountStrict(bib, idx, bpb, l) ==
    IF bpb[1] > 0
    THEN IF bib + l > bpb[idx + 1]
         THEN <<0, 1 - idx, TRUE>>
         ELSE <<bib + l, idx, FALSE>>
    ELSE <<bib, idx, FALSE>>

\* the accountant comparing against channel 0's block size whatever the
\* active channel
AccountOneSize(bib, idx, bpb, l) ==
    IF bpb[1] > 0
    THEN IF bib + l >= bpb[1]
         THEN <<0, 1 - idx, TRUE>>
         ELSE <<bib + l, idx, FALSE>>
    ELSE <<bib, idx, FALSE>>

\* lines 226-230: the block accountant; <<bytes_in_block, current_freq_idx,
\* boundary crossed>> after a chunk of l bytes
Account(bib, idx, bpb, l) ==
    IF bpb[1] > 0
    THEN IF bib + l >= bpb[idx + 1]
         THEN <<0, 1 - idx, TRUE>>
         ELSE <<bib + l, idx, FALSE>>
    ELSE <<bib, idx, FALSE>>

\* a post that does not replace a frequency still waiting in the slot
PostKeepPending(old, new) == IF old # 0 THEN old ELSE new

\* line 237: the store into the one-slot mailbox overwrites what is there
PostValue(old, new) == new

\* line 237: the frequency of channel idx
ChannelFreq(idx) == IF idx = 1 THEN frequency2 ELSE frequency1

(* ---- pull mode: the synchronous loop of main --------------------------- *)
\* line 461: while (!do_exit) -- the loop ends once the flag is seen
MainSyncExit ==
    /\ main_pc = "sync"
    /\ do_exit = 1
    /\ main_pc' = "close"
    /\ UNCHANGED <<cfgvars, hist, do_exit, bytes_to_read, bytes_per_block,
                   bytes_in_block, current_freq_idx, retune_freq,
                   out_block_size, r, cb_pc, len, worker_pc, freq, sig_pc,
                   retune_mutex, async_cancel, dev_open, hw_freq,
                   n_calls, chunks, written, short_write, posted, applied>>

\* lines 462-466: rtlsdr_read_sync fails (r < 0): break
MainSyncFail ==
    /\ main_pc = "sync"
    /\ do_exit = 0
    /\ n_calls < MaxChunks
    /\ n_calls' = n_calls + 1
    /\ r' = -1
    /\ main_pc' = "close"
    /\ UNCHANGED <<cfgvars, hist, do_exit, bytes_to_read, bytes_per_block,
                   bytes_in_block, current_freq_idx, retune_freq,
                   out_block_size, cb_pc, len, worker_pc, freq, sig_pc,
                   retune_mutex, async_cancel, dev_open, hw_freq,
                   chunks, written, short_write, posted, applied>>

\* lines 462-484: one iteration that read n_read bytes, of which fwrite
\* accepted w
SyncIter(n_read, w) ==
    LET trunc == bytes_to_read > 0 /\ bytes_to_read < n_read
        n1    == Truncated(bytes_to_read, n_read)
    IN  /\ n_calls' = n_calls + 1
        /\ chunks' = Append(chunks, n_read)
        /\ r' = 0
        /\ do_exit' = IF trunc THEN 1 ELSE do_exit
        /\ written' = written + w
        /\ short_write' = (short_write \/ w # n1)
        /\ IF w # n1
           THEN \* short write: break
                /\ main_pc' = "close"
                /\ UNCHANGED bytes_to_read
           ELSE IF n1 < out_block_size
                THEN \* short read: break
                     /\ main_pc' = "close"
                     /\ UNCHANGED bytes_to_read
                ELSE /\ bytes_to_read' =
                          IF bytes_to_read > 0 THEN bytes_to_read - n1
                          ELSE bytes_to_read
                     /\ main_pc' = "sync"

\* a sync loop that drives the accountant and retunes at a boundary
MainSyncReadAccounting ==
    /\ main_pc = "sync"
    /\ do_exit = 0
    /\ n_calls < MaxChunks
    /\ \E n_read \in ChunkLens(out_block_size, freq_count) :
         LET acc == Account(bytes_in_block, current_freq_idx,
                            bytes_per_block, Truncated(bytes_to_read, n_read))
         IN  /\ \/ SyncIter(n_read, FullWrite(Truncated(bytes_to_read, n_read)))
                 \/ SyncIter(n_read, ShortWrite(Truncated(bytes_to_read, n_read)))
             /\ bytes_in_block' = acc[1]
             /\ current_freq_idx' = acc[2]
             /\ hw_freq' = IF acc[3] THEN ChannelFreq(acc[2]) ELSE hw_freq
    /\ UNCHANGED <<cfgvars, hist, bytes_per_block, retune_freq, out_block_size,
                   cb_pc, len, worker_pc, freq, sig_pc, retune_mutex,
                   async_cancel, dev_open, posted, applied>>

MainSyncRead ==
    /\ main_pc = "sync"
    /\ do_exit = 0
    /\ n_calls < MaxChunks
    /\ \E n_read \in ChunkLens(out_block_size, freq_count) :
         \/ SyncIter(n_read, FullWrite(Truncated(bytes_to_read, n_read)))
         \/ SyncIter(n_read, ShortWrite(Truncated(bytes_to_read, n_read)))
    /\ UNCHANGED <<cfgvars, hist, bytes_per_block, bytes_in_block,
                   current_freq_idx, retune_freq, out_block_size,
                   cb_pc, len, worker_pc, freq, sig_pc, retune_mutex,
                   async_cancel, dev_open, hw_freq, posted, applied>>

(* ---- push mode: main around rtlsdr_read_async -------------------------- *)
\* a controller that starts the worker whatever the number of -f
MainCreateAlways ==
    /\ main_pc = "create"
    /\ worker_pc' = "top"
    /\ async_cancel' = FALSE
    /\ main_pc' = "async"
    /\ UNCHANGED <<cfgvars, hist, do_exit, bytes_to_read, bytes_per_block,
                   bytes_in_block, current_freq_idx, retune_freq,
                   out_block_size, r, cb_pc, len, freq, sig_pc,
                   retune_mutex, dev_open, hw_freq,
                   n_calls, chunks, written, short_write, posted, applied>>

\* lines 488-493: start the worker (two -f only) and enter the delivery loop
MainCreate ==
    /\ main_pc = "create"
    /\ worker_pc' = IF freq_count >= 2 THEN "top" ELSE "none"
    /\ async_cancel' = FALSE
    /\ main_pc' = "async"
    /\ UNCHANGED <<cfgvars, hist, do_exit, bytes_to_read, bytes_per_block,
                   bytes_in_block, current_freq_idx, retune_freq,
                   out_block_size, r, cb_pc, len, freq, sig_pc,
                   retune_mutex, dev_open, hw_freq,
                   n_calls, chunks, written, short_write, posted, applied>>

\* line 492: rtlsdr_read_async returns, after a cancel request or on a
\* device error (err)
AsyncReturn(err) ==
    /\ main_pc = "async"
    /\ cb_pc = "idle"
    /\ async_cancel \/ err
    /\ r' = IF err THEN -1 ELSE 0
    /\ main_pc' = "wake"
    /\ UNCHANGED <<cfgvars, hist, do_exit, bytes_to_read, bytes_per_block,
                   bytes_in_block, current_freq_idx, retune_freq,
                   out_block_size, cb_pc, len, worker_pc, freq, sig_pc,
                   retune_mutex, async_cancel, dev_open, hw_freq,
                   n_calls, chunks, written, short_write, posted, applied>>

MainAsyncCancelled == AsyncReturn(FALSE)

MainAsyncError == ~async_cancel /\ AsyncReturn(TRUE)

\* a controller that joins the worker without signalling the condition
MainWakeNoSignal ==
    /\ main_pc = "wake"
    /\ wake_seen' = worker_pc
    /\ main_pc' = IF freq_count >= 2 THEN "join" ELSE "close"
    /\ UNCHANGED <<cfgvars, taken, do_exit, bytes_to_read, bytes_per_block,
                   bytes_in_block, current_freq_idx, retune_freq,
                   out_block_size, r, cb_pc, len, worker_pc, freq, sig_pc,
                   retune_mutex, async_cancel, dev_open, hw_freq,
                   n_calls, chunks, written, short_write, posted, applied>>

\* lines 495-498: lock, pthread_cond_signal, unlock (two -f only)
MainWake ==
    /\ main_pc = "wake"
    /\ wake_seen' = worker_pc
    /\ IF freq_count >= 2
       THEN /\ retune_mutex = "free"
            /\ worker_pc' = IF worker_pc = "wait" THEN "woken" ELSE worker_pc
            /\ main_pc' = "join"
       ELSE /\ main_pc' = "close"
            /\ UNCHANGED worker_pc
    /\ UNCHANGED <<cfgvars, taken, do_exit, bytes_to_read, bytes_per_block,
                   bytes_in_block, current_freq_idx, retune_freq,
                   out_block_size, r, cb_pc, len, freq, sig_pc,
                   retune_mutex, async_cancel, dev_open, hw_freq,
                   n_calls, chunks, written, short_write, posted, applied>>

\* a controller that goes on to close the device without waiting for the
\* worker to return
MainJoinNoWait ==
    /\ main_pc = "join"
    /\ main_pc' = "close"
    /\ UNCHANGED <<cfgvars, hist, do_exit, bytes_to_read, bytes_per_block,
                   bytes_in_block, current_freq_idx, retune_freq,
                   out_block_size, r, cb_pc, len, worker_pc, freq, sig_pc,
                   retune_mutex, async_cancel, dev_open, hw_freq,
                   n_calls, chunks, written, short_write, posted, applied>>

\* line 499: pthread_join returns once the worker has returned
MainJoin ==
    /\ main_pc = "join"
    /\ worker_pc = "exited"
    /\ main_pc' = "close"
    /\ UNCHANGED <<cfgvars, hist, do_exit, bytes_to_read, bytes_per_block,
                   bytes_in_block, current_freq_idx, retune_freq,
                   out_block_size, r, cb_pc, len, worker_pc, freq, sig_pc,
                   retune_mutex, async_cancel, dev_open, hw_freq,
                   n_calls, chunks, written, short_write, posted, applied>>

\* lines 504-513: report, close the sink, rtlsdr_close(dev)
MainClose ==
    /\ main_pc = "close"
    /\ dev_open' = FALSE
    /\ main_pc' = "done"
    /\ UNCHANGED <<cfgvars, hist, do_exit, bytes_to_read, bytes_per_block,
                   bytes_in_block, current_freq_idx, retune_freq,
                   out_block_size, r, cb_pc, len, worker_pc, freq, sig_pc,
                   retune_mutex, async_cancel, hw_freq,
                   n_calls, chunks, written, short_write, posted, applied>>

(* ---- push mode: rtlsdr_callback, run by the delivery thread ------------ *)
\* a handler without the do_exit test of lines 192-193
CbEnterNoCheck ==
    /\ main_pc = "async"
    /\ cb_pc = "idle"
    /\ n_calls < MaxChunks
    /\ n_calls' = n_calls + 1
    /\ cb_pc' = "body"
    /\ len' \in ChunkLens(out_block_size, freq_count)
    /\ UNCHANGED <<cfgvars, hist, do_exit, bytes_to_read, bytes_per_block,
                   bytes_in_block, current_freq_idx, retune_freq,
                   out_block_size, r, main_pc, worker_pc, freq, sig_pc,
                   retune_mutex, async_cancel, dev_open, hw_freq,
                   chunks, written, short_write, posted, applied>>

\* lines 189-193: the transport invokes the handler with a chunk of l bytes;
\* with do_exit set it returns at once
CbEnter ==
    /\ main_pc = "async"
    /\ cb_pc = "idle"
    /\ n_calls < MaxChunks
    /\ n_calls' = n_calls + 1
    /\ IF do_exit = 1
       THEN UNCHANGED <<cb_pc, len>>
       ELSE /\ cb_pc' = "body"
            /\ len' \in ChunkLens(out_block_size, freq_count)
    /\ UNCHANGED <<cfgvars, hist, do_exit, bytes_to_read, bytes_per_block,
                   bytes_in_block, current_freq_idx, retune_freq,
                   out_block_size, r, main_pc, worker_pc, freq, sig_pc,
                   retune_mutex, async_cancel, dev_open, hw_freq,
                   chunks, written, short_write, posted, applied>>

\* lines 195-230: truncate to the cap, write, count down the cap, account
CbBody ==
    /\ cb_pc = "body"
    /\ LET trunc == bytes_to_read > 0 /\ bytes_to_read < len
           len1  == Truncated(bytes_to_read, len)
           acc   == Account(bytes_in_block, current_freq_idx,
                            bytes_per_block, len1)
       IN  /\ \E w \in {FullWrite(len1), ShortWrite(len1)} :
                /\ written' = written + w
                /\ short_write' = (short_write \/ w # len1)
                /\ async_cancel' = (async_cancel \/ trunc \/ w # len1)
           /\ do_exit' = IF trunc THEN 1 ELSE do_exit
           /\ bytes_to_read' =
                IF bytes_to_read > 0 THEN bytes_to_read - len1
                ELSE bytes_to_read
           /\ chunks' = Append(chunks, len)
           /\ len' = len1
           /\ bytes_in_block' = acc[1]
           /\ current_freq_idx' = acc[2]
           /\ cb_pc' = IF acc[3] THEN "post" ELSE "idle"
    /\ UNCHANGED <<cfgvars, hist, bytes_per_block, retune_freq, out_block_size,
                   r, main_pc, worker_pc, freq, sig_pc, retune_mutex,
                   dev_open, hw_freq, n_calls, posted, applied>>

\* a handler that retunes by itself at the boundary, as the branch of
\* lines 241-242 does
CbPostDirect ==
    /\ cb_pc = "post"
    /\ hw_freq' = ChannelFreq(current_freq_idx)
    /\ posted' = Append(posted, ChannelFreq(current_freq_idx))
    /\ cb_pc' = "idle"
    /\ UNCHANGED <<cfgvars, hist, do_exit, bytes_to_read, bytes_per_block,
                   bytes_in_block, current_freq_idx, retune_freq,
                   out_block_size, r, main_pc, len, worker_pc, freq, sig_pc,
                   retune_mutex, async_cancel, dev_open, n_calls, chunks,
                   written, short_write, applied>>

\* lines 236-239: lock, store the new frequency, signal, unlock
CbPost ==
    /\ cb_pc = "post"
    /\ retune_mutex = "free"
    /\ retune_freq' = PostValue(retune_freq, ChannelFreq(current_freq_idx))
    /\ posted' = Append(posted, ChannelFreq(current_freq_idx))
    /\ worker_pc' = IF worker_pc = "wait" THEN "woken" ELSE worker_pc
    /\ cb_pc' = "idle"
    /\ UNCHANGED <<cfgvars, hist, do_exit, bytes_to_read, bytes_per_block,
                   bytes_in_block, current_freq_idx, out_block_size, r,
                   main_pc, len, freq, sig_pc, retune_mutex, async_cancel,
                   dev_open, hw_freq, n_calls, chunks, written,
                   short_write, applied>>

(* ---- the retune worker (lines 111-125) --------------------------------- *)
\* line 114: while (!do_exit)
WTop ==
    /\ worker_pc = "top"
    /\ worker_pc' = IF do_exit = 0 THEN "lock" ELSE "exited"
    /\ UNCHANGED <<cfgvars, hist, do_exit, bytes_to_read, bytes_per_block,
                   bytes_in_block, current_freq_idx, retune_freq,
                   out_block_size, r, main_pc, cb_pc, len, freq, sig_pc,
                   retune_mutex, async_cancel, dev_open, hw_freq,
                   n_calls, chunks, written, short_write, posted, applied>>

\* line 115: pthread_mutex_lock
WLock ==
    /\ worker_pc = "lock"
    /\ retune_mutex = "free"
    /\ retune_mutex' = "worker"
    /\ worker_pc' = "check"
    /\ UNCHANGED <<cfgvars, hist, do_exit, bytes_to_read, bytes_per_block,
                   bytes_in_block, current_freq_idx, retune_freq,
                   out_block_size, r, main_pc, cb_pc, len, freq, sig_pc,
                   async_cancel, dev_open, hw_freq,
                   n_calls, chunks, written, short_write, posted, applied>>

\* line 116: while (retune_freq == 0 && !do_exit), evaluated with the
\* mutex held
WCheck ==
    /\ worker_pc = "check"
    /\ worker_pc' = IF retune_freq = 0 /\ do_exit = 0 THEN "towait" ELSE "take"
    /\ UNCHANGED <<cfgvars, hist, do_exit, bytes_to_read, bytes_per_block,
                   bytes_in_block, current_freq_idx, retune_freq,
                   out_block_size, r, main_pc, cb_pc, len, freq, sig_pc,
                   retune_mutex, async_cancel, dev_open, hw_freq,
                   n_calls, chunks, written, short_write, posted, applied>>

\* line 117: pthread_cond_wait releases the mutex and blocks, atomically
WWait ==
    /\ worker_pc = "towait"
    /\ worker_pc' = "wait"
    /\ retune_mutex' = "free"
    /\ UNCHANGED <<cfgvars, hist, do_exit, bytes_to_read, bytes_per_block,
                   bytes_in_block, current_freq_idx, retune_freq,
                   out_block_size, r, main_pc, cb_pc, len, freq, sig_pc,
                   async_cancel, dev_open, hw_freq,
                   n_calls, chunks, written, short_write, posted, applied>>

\* line 117: pthread_cond_wait may return without a signal
WSpurious ==
    /\ worker_pc = "wait"
    /\ worker_pc' = "woken"
    /\ UNCHANGED <<cfgvars, hist, do_exit, bytes_to_read, bytes_per_block,
                   bytes_in_block, current_freq_idx, retune_freq,
                   out_block_size, r, main_pc, cb_pc, len, freq, sig_pc,
                   retune_mutex, async_cancel, dev_open, hw_freq,
                   n_calls, chunks, written, short_write, posted, applied>>

\* line 117: the woken waiter re-acquires the mutex before returning
WReacquire ==
    /\ worker_pc = "woken"
    /\ retune_mutex = "free"
    /\ retune_mutex' = "worker"
    /\ worker_pc' = "check"
    /\ UNCHANGED <<cfgvars, hist, do_exit, bytes_to_read, bytes_per_block,
                   bytes_in_block, current_freq_idx, retune_freq,
                   out_block_size, r, main_pc, cb_pc, len, freq, sig_pc,
                   async_cancel, dev_open, hw_freq,
                   n_calls, chunks, written, short_write, posted, applied>>

\* a worker that keeps the mutex while it retunes
WTakeHolding ==
    /\ worker_pc = "take"
    /\ freq' = retune_freq
    /\ retune_freq' = 0
    /\ taken' = IF retune_freq # 0 THEN Append(taken, Len(posted)) ELSE taken
    /\ worker_pc' = "retune"
    /\ UNCHANGED <<cfgvars, wake_seen, do_exit, bytes_to_read, bytes_per_block,
                   bytes_in_block, current_freq_idx, out_block_size, r,
                   main_pc, cb_pc, len, sig_pc, async_cancel, dev_open,
                   hw_freq, n_calls, chunks, written, short_write, posted,
                   applied, retune_mutex>>

\* lines 118-120: take the slot, clear it, unlock
WTake ==
    /\ worker_pc = "take"
    /\ freq' = retune_freq
    /\ retune_freq' = 0
    /\ taken' = IF retune_freq # 0 THEN Append(taken, Len(posted)) ELSE taken
    /\ retune_mutex' = "free"
    /\ worker_pc' = "retune"
    /\ UNCHANGED <<cfgvars, wake_seen, do_exit, bytes_to_read, bytes_per_block,
                   bytes_in_block, current_freq_idx, out_block_size, r,
                   main_pc, cb_pc, len, sig_pc, async_cancel, dev_open,
                   hw_freq, n_calls, chunks, written, short_write, posted,
                   applied>>

\* a worker that calls verbose_set_frequency without the test of line 121
WRetuneAlways ==
    /\ worker_pc = "retune"
    /\ hw_freq' = freq
    /\ applied' = Append(applied, freq)
    /\ worker_pc' = "top"
    /\ UNCHANGED <<cfgvars, hist, do_exit, bytes_to_read, bytes_per_block,
                   bytes_in_block, current_freq_idx, retune_freq,
                   out_block_size, r, main_pc, cb_pc, len, freq, sig_pc,
                   retune_mutex, async_cancel, dev_open,
                   n_calls, chunks, written, short_write, posted>>

\* lines 121-122: if (freq != 0) verbose_set_frequency(dev, freq)
WRetune ==
    /\ worker_pc = "retune"
    /\ IF freq # 0
       THEN /\ hw_freq' = freq
            /\ applied' = Append(applied, freq)
       ELSE UNCHANGED <<hw_freq, applied>>
    /\ worker_pc' = "top"
    /\ UNCHANGED <<cfgvars, hist, do_exit, bytes_to_read, bytes_per_block,
                   bytes_in_block, current_freq_idx, retune_freq,
                   out_block_size, r, main_pc, cb_pc, len, freq, sig_pc,
                   retune_mutex, async_cancel, dev_open,
                   n_calls, chunks, written, short_write, posted>>

(* ---- the signal handler (lines 180-186) -------------------------------- *)
\* a signal arrives once the handlers are installed (lines 411-417)
SigFire ==
    /\ sig_pc = "idle"
    /\ main_pc \in {"sync", "create", "async", "wake", "join"}
    /\ sig_pc' = "set"
    /\ UNCHANGED <<cfgvars, hist, do_exit, bytes_to_read, bytes_per_block,
                   bytes_in_block, current_freq_idx, retune_freq,
                   out_block_size, r, main_pc, cb_pc, len, worker_pc, freq,
                   retune_mutex, async_cancel, dev_open, hw_freq,
                   n_calls, chunks, written, short_write, posted, applied>>

\* line 184: do_exit = 1
SigSet ==
    /\ sig_pc = "set"
    /\ do_exit' = 1
    /\ sig_pc' = "cancel"
    /\ UNCHANGED <<cfgvars, hist, bytes_to_read, bytes_per_block,
                   bytes_in_block, current_freq_idx, retune_freq,
                   out_block_size, r, main_pc, cb_pc, len, worker_pc, freq,
                   retune_mutex, async_cancel, dev_open, hw_freq,
                   n_calls, chunks, written, short_write, posted, applied>>

\* line 185: rtlsdr_cancel_async(dev): takes effect only while the
\* delivery loop is running
SigCancel ==
    /\ sig_pc = "cancel"
    /\ async_cancel' = (async_cancel \/ main_pc = "async")
    /\ sig_pc' = "idle"
    /\ UNCHANGED <<cfgvars, hist, do_exit, bytes_to_read, bytes_per_block,
                   bytes_in_block, current_freq_idx, retune_freq,
                   out_block_size, r, main_pc, cb_pc, len, worker_pc, freq,
                   retune_mutex, dev_open, hw_freq,
                   n_calls, chunks, written, short_write, posted, applied>>

(* ---- specification ----------------------------------------------------- *)
Next ==
    \/ MainMode \/ MainRange \/ MainTune
    \/ MainSyncExit \/ MainSyncFail \/ MainSyncRead
    \/ MainCreate \/ MainAsyncCancelled \/ MainAsyncError
    \/ MainWake \/ MainJoin \/ MainClose
    \/ CbEnter \/ CbBody \/ CbPost
    \/ WTop \/ WLock \/ WCheck \/ WWait \/ WSpurious \/ WReacquire \/ WTake \/ WRetune
    \/ SigFire \/ SigSet \/ SigCancel

Spec == Init /\ [][Next]_vars

\* Push-mode runs with two -f under fair scheduling: every thread that can
\* take a step of the program eventually takes it, and a thread waiting
\* for the mutex eventually gets it.  Nothing is assumed of the
\* environment: signals, chunk deliveries, device errors and spurious
\* wake-ups may or may not happen.
FairPlans == {<<4096, 8192>>}

InitPush == Init /\ sync_mode = 0 /\ freq_count = 2 /\ n_samples \in FairPlans

NextPush ==
    \/ MainMode \/ MainRange \/ MainTune
    \/ MainCreate \/ MainAsyncCancelled \/ MainAsyncError
    \/ MainWake \/ MainJoin \/ MainClose
    \/ CbEnter \/ CbBody \/ CbPost
    \/ WTop \/ WLock \/ WCheck \/ WWait \/ WSpurious \/ WReacquire \/ WTake \/ WRetune
    \/ SigFire \/ SigSet \/ SigCancel

\* the steps of the main thread (which runs the handler), the worker and
\* the signal handler that the program itself takes (an arriving chunk, a
\* device error, a signal and a spurious wake-up are the environment's)
MainSteps ==
    \/ MainMode \/ MainRange \/ MainTune \/ MainCreate
    \/ MainAsyncCancelled \/ MainWake \/ MainJoin \/ MainClose
    \/ CbBody \/ CbPost

WorkerSteps ==
    WTop \/ WLock \/ WCheck \/ WWait \/ WReacquire \/ WTake \/ WRetune

SignalSteps == SigSet \/ SigCancel

Fairness ==
    /\ SF_vars(MainSteps)
    /\ SF_vars(WorkerSteps)
    /\ WF_vars(SignalSteps)

FairSpec == InitPush /\ [][NextPush]_vars /\ Fairness

(* ---- vocabulary of the properties -------------------------------------- *)
RECURSIVE SumSeq(_)
SumSeq(q) == IF q = <<>> THEN 0 ELSE q[1] + SumSeq(Tail(q))

\* two -f arguments with their block sizes set (past lines 353-355)
Alternating == freq_count >= 2 /\ main_pc \notin {"mode", "usage"}

\* push mode: the handler of rtlsdr_read_async is what receives the chunks
PushMode == sync_mode = 0

\* the transfer size has been settled (past lines 384-393)
Resolved == main_pc \notin {"mode", "range", "usage"}

\* every chunk handled so far had exactly c bytes
AllChunks(c) == \A i \in 1..Len(chunks) : chunks[i] = c

\* the largest power of two, at most 16384, that divides b (b > 0), found
\* by doubling from d: the largest divisor b shares with the cap
RECURSIVE CapRefFrom(_, _)
CapRefFrom(b, d) ==
    IF d < 16384 /\ b % (2 * d) = 0 THEN CapRefFrom(b, 2 * d) ELSE d

CapRef(b) == IF b > 0 THEN CapRefFrom(b, 1) ELSE 16384

\* one step of the accountant of section 4.3: state s = <<accumulated
\* bytes, active index>>, a chunk of l bytes, block sizes b0 and b1
AccStep(s, l, b0, b1) ==
    IF s[1] + l >= (IF s[2] = 0 THEN b0 ELSE b1) THEN <<0, 1 - s[2]>>
    ELSE <<s[1] + l, s[2]>>

\* the accountant run from state s over the chunks q[i], q[i+1], ...
RECURSIVE AccRun(_, _, _, _, _)
AccRun(s, q, i, b0, b1) ==
    IF i > Len(q) THEN s
    ELSE AccRun(AccStep(s, q[i], b0, b1), q, i + 1, b0, b1)

\* the accountant run over a whole chunk history from its initial state
AccRef(q, b0, b1) == AccRun(<<0, 0>>, q, 1, b0, b1)

(* ---- C1 ---------------------------------------------------------------- *)
\* C1: with one -f and a cap of C = 2 * n_samples[0] > 0 bytes, the bytes
\* written to the sink never exceed C, in push and in pull mode (stated
\* for the runs in which the sink accepted every write in full).
C1_CapNeverExceeded ==
    (freq_count = 1 /\ n_count >= 1 /\ n_samples[1] > 0 /\ ~short_write)
        => written <= 2 * n_samples[1]

(* ---- C4 ---------------------------------------------------------------- *)
\* C4: with two -f, positive even block sizes and no -b, the transfer size
\* handed to the transport divides both block sizes and is at most 16384.
C4_ChunkDividesBlocks ==
    (Alternating /\ Resolved /\ blocksize_given = 0
       /\ bytes_per_block[1] > 0 /\ bytes_per_block[2] > 0)
        => /\ bytes_per_block[1] % out_block_size = 0
           /\ bytes_per_block[2] % out_block_size = 0
           /\ out_block_size <= 16384

(* ---- C5 ---------------------------------------------------------------- *)
\* C5: in alternation mode the accountant always satisfies
\* 0 <= bytes_in_block < bytes_per_block[current_freq_idx], with
\* current_freq_idx 0 or 1, whatever chunk lengths were delivered.
C5_AccountantInvariant ==
    Alternating
        => /\ current_freq_idx \in {0, 1}
           /\ 0 <= bytes_in_block
           /\ bytes_in_block < bytes_per_block[current_freq_idx + 1]

\* a run that has crossed a boundary and is part-way into channel 1's block
C5_Witness ==
    /\ Alternating /\ PushMode
    /\ Len(chunks) >= 2
    /\ current_freq_idx = 1
    /\ bytes_in_block > 0

(* ---- C6 ---------------------------------------------------------------- *)
\* the number of blocks completed within the first p bytes of the stream
\* [b0][b1][b0][b1]...
BlocksBefore(p, b0, b1) ==
    2 * (p \div (b0 + b1)) + (IF p % (b0 + b1) >= b0 THEN 1 ELSE 0)

\* C6: in alternation push mode, when every chunk has exactly the transfer
\* size c and c divides both block sizes, a chunk starting at byte offset p
\* of the output stream belongs to channel 0 iff p mod (b0 + b1) < b0;
\* bytes_in_block is the offset within the current block (it reaches the
\* block size exactly, never beyond), and one retune to the other channel's
\* frequency has been posted per completed block.  For b0 = 8192,
\* b1 = 16384, c = 8192: channel 1 after chunks 1 and 2, channel 0 after 3,
\* and so on with a period of three chunks.
C6_ReferencePattern ==
    LET b0  == bytes_per_block[1]
        b1  == bytes_per_block[2]
        c   == out_block_size
        p   == written
        pos == p % (b0 + b1)
        nb  == BlocksBefore(p, b0, b1)
    IN  (/\ Alternating /\ Resolved /\ PushMode
         /\ b0 % c = 0 /\ b1 % c = 0
         /\ AllChunks(c) /\ ~short_write)
        => /\ p = Len(chunks) * c
           /\ current_freq_idx = (IF pos < b0 THEN 0 ELSE 1)
           /\ bytes_in_block = (IF pos < b0 THEN pos ELSE pos - b0)
           /\ Len(posted) = (IF cb_pc = "post" THEN nb - 1 ELSE nb)
           /\ \A k \in 1..Len(posted) :
                posted[k] = (IF k % 2 = 1 THEN frequency2 ELSE frequency1)
           /\ (b0 = 8192 /\ b1 = 16384 /\ c = 8192) =>
                current_freq_idx =
                    (IF Len(chunks) % 3 \in {1, 2} THEN 1 ELSE 0)

\* b0 = 8192, b1 = 16384, c = 8192: three full chunks written, the channel
\* is back at 0 and two retunes were posted
C6_Witness ==
    /\ Alternating /\ PushMode
    /\ bytes_per_block = <<8192, 16384>> /\ out_block_size = 8192
    /\ chunks = <<8192, 8192, 8192>> /\ written = 24576
    /\ cb_pc = "idle"
    /\ current_freq_idx = 0 /\ bytes_in_block = 0
    /\ posted = <<frequency2, frequency1>>

(* ---- C7 ---------------------------------------------------------------- *)
\* C7: with both channels at the same block size b, whenever the chunks
\* delivered so far (each at most the transfer size) sum to a multiple of
\* b, the boundary crossings number total / b and the active index is
\* the parity of that number (0,1,0,1,... from 0).  Stated for the runs in
\* which the sink accepted every write in full.
C7_CrossingsPerBlock ==
    LET b     == bytes_per_block[1]
        total == SumSeq(chunks)
    IN  (/\ Alternating /\ Resolved /\ PushMode /\ cb_pc = "idle"
         /\ bytes_per_block[2] = b /\ ~short_write
         /\ \A i \in 1..Len(chunks) : chunks[i] <= out_block_size
         /\ total % b = 0)
        => /\ Len(posted) = total \div b
           /\ current_freq_idx = (total \div b) % 2

BodyStep == cb_pc = "body" /\ cb_pc' # "body"

\* C9: when the handler processes a chunk of len bytes under a remaining
\* cap r with 0 < r < len, it hands exactly r bytes to fwrite (which adds r
\* bytes to the output unless the sink itself comes up short), sets
\* do_exit, asks the transport to cancel and leaves the cap at 0.
C9_TruncateToCap ==
    [][(BodyStep /\ bytes_to_read > 0 /\ len > bytes_to_read)
        => /\ len' = bytes_to_read
           /\ \/ written' = written + bytes_to_read
              \/ (short_write' /\ written' < written + bytes_to_read)
           /\ do_exit' = 1
           /\ async_cancel'
           /\ bytes_to_read' = 0]_vars

\* cap 20 bytes (-n 10), one chunk of 32 bytes: 20 written, cap 0, done
C9_Witness ==
    /\ freq_count = 1 /\ PushMode
    /\ n_samples[1] = 10
    /\ chunks = <<32>>
    /\ written = 20 /\ ~short_write
    /\ bytes_to_read = 0
    /\ do_exit = 1 /\ async_cancel

(* ---- C10 --------------------------------------------------------------- *)
\* C10: the mailbox holds at most the most recent post; what the worker
\* takes and applies is the post that was the latest when it took the slot
\* (posts overwritten before that are never applied); and the accountant
\* state depends on the delivered chunks alone, whatever the worker has
\* consumed.
C10_MailboxOverwrite ==
    (Alternating /\ PushMode)
        => /\ retune_freq # 0 =>
                (posted # <<>> /\ retune_freq = posted[Len(posted)])
           /\ Len(applied) <= Len(taken)
           /\ Len(taken) <= Len(applied) + 1
           /\ \A i \in 1..Len(taken) :
                /\ taken[i] \in 1..Len(posted)
                /\ i > 1 => taken[i - 1] < taken[i]
                /\ i <= Len(applied) => applied[i] = posted[taken[i]]
           /\ (worker_pc = "retune" /\ freq # 0) =>
                (taken # <<>> /\ freq = posted[taken[Len(taken)]])
           /\ Len(taken) = Len(applied) + 1 => (worker_pc = "retune" /\ freq # 0)
           /\ <<bytes_in_block, current_freq_idx>> =
                AccRef(chunks, bytes_per_block[1], bytes_per_block[2])

\* two posts (frequency2, then frequency1) before the worker took the slot:
\* only the second was applied, and the accountant is back on channel 0
C10_Witness ==
    /\ Alternating /\ PushMode
    /\ frequency2 # 0
    /\ posted = <<frequency2, frequency1>>
    /\ taken = <<2>>
    /\ applied = <<frequency1>>
    /\ retune_freq = 0
    /\ current_freq_idx = 0

(* ---- C2 ---------------------------------------------------------------- *)
\* C2: in push mode with two -f, a short write makes the handler ask the
\* transport to cancel, and the run then terminates by itself: the delivery
\* loop returns, the worker leaves its loop, the join returns and the
\* device is closed.  (Runs in which a signal sets do_exit meanwhile are
\* left aside: they are C3's.)
C2_ShortWriteTerminates ==
    (short_write /\ async_cancel)
        ~> ((worker_pc = "exited" /\ main_pc = "done" /\ ~dev_open)
            \/ do_exit = 1)

(* ---- C3 ---------------------------------------------------------------- *)
\* C3: with two -f in push mode, once the delivery loop has returned with
\* do_exit set, the controller's signal lets the worker see the flag and
\* return, and the join completes, wherever the worker was.
C3_ShutdownJoins ==
    (freq_count >= 2 /\ main_pc = "wake" /\ do_exit = 1)
        ~> (worker_pc = "exited" /\ main_pc = "done")

\* a shutdown by signal in which the controller's signal found the worker
\* blocked in the condition wait with an empty mailbox
C3_Witness ==
    /\ freq_count >= 2
    /\ do_exit = 1
    /\ wake_seen = "wait"
    /\ retune_freq = 0
    /\ worker_pc = "exited"
    /\ main_pc = "done"

(* ---- C11 --------------------------------------------------------------- *)
\* the worker thread exists and has not returned
WorkerAlive == worker_pc \notin {"none", "exited"}

\* the flag is set, the mailbox is empty, no handler invocation is under
\* way and the worker holds no frequency it has yet to apply
Quiesced ==
    /\ do_exit = 1 /\ retune_freq = 0 /\ cb_pc = "idle"
    /\ ~(worker_pc = "retune" /\ freq # 0)

\* C11: during alternation, once the flag is set with the mailbox empty the
\* worker never calls verbose_set_frequency again, and a retune it does
\* issue is always of a frequency the accountant posted; when the signal
\* handler has set the flag while the delivery loop runs (and is about to
\* ask for the cancel), the worker is woken by the controller and returns.
C11_NoSpuriousRetune ==
    /\ [][/\ Quiesced => (applied' = applied /\ hw_freq' = hw_freq)
          /\ applied' # applied =>
                (/\ worker_pc = "retune" /\ freq # 0
                 /\ applied' = Append(applied, freq)
                 /\ \E k \in 1..Len(posted) : posted[k] = freq)]_vars
    /\ (main_pc = "async" /\ sig_pc = "cancel" /\ retune_freq = 0
          /\ WorkerAlive)
         ~> (worker_pc = "exited")

\* a shutdown by signal that found the worker waiting on an empty mailbox
\* after it had applied a posted frequency: the worker has returned and the
\* tuner still holds that frequency
C11_Witness ==
    /\ freq_count >= 2 /\ do_exit = 1
    /\ wake_seen = "wait" /\ retune_freq = 0
    /\ worker_pc = "exited"
    /\ applied # <<>> /\ Len(applied) = Len(taken)
    /\ hw_freq = applied[Len(applied)]

(* ---- C12 --------------------------------------------------------------- *)
\* the posts the worker has consumed, as positions in the post sequence
TakenSet == {taken[i] : i \in 1..Len(taken)}

\* C12: the frequencies the worker applied are a subsequence of the posted
\* ones, in post order (each applied frequency is a post, none is applied
\* twice, none before an earlier one), and a post the worker has not
\* consumed was either overwritten by a later post or is the last one,
\* still pending in the mailbox (where it stays if the run is shut down).
\* Stated for the runs in which the sink accepted every write in full.
C12_AppliedSubsequence ==
    (Alternating /\ PushMode /\ ~short_write)
        => /\ Len(applied) <= Len(taken)
           /\ \A i \in 1..Len(taken) :
                /\ taken[i] \in 1..Len(posted)
                /\ \A j \in 1..Len(taken) : i < j => taken[i] < taken[j]
                /\ i <= Len(applied) => applied[i] = posted[taken[i]]
           /\ \A k \in 1..Len(posted) :
                k \notin TakenSet
                    => \/ k < Len(posted)
                       \/ (retune_freq # 0 /\ retune_freq = posted[k])

(* ---- C13 --------------------------------------------------------------- *)
\* the accountant and the dispatcher have done nothing: the counters are at
\* their initial values, nothing was posted or applied, no worker exists
\* and, once tuned, the hardware is at frequency1
RetuneIdle ==
    /\ bytes_in_block = 0 /\ current_freq_idx = 0
    /\ retune_freq = 0 /\ posted = <<>>
    /\ worker_pc = "none"
    /\ applied = <<>>
    /\ main_pc \notin {"mode", "range", "open", "usage"}
            => hw_freq = frequency1

\* C13: with one -f, whatever chunks are delivered (push or pull mode),
\* bytes_in_block and current_freq_idx stay 0, the mailbox is never
\* written, no worker thread is started and the hardware is never retuned
\* after the initial tuning to frequency1.
C13_SingleFreqInactive ==
    freq_count = 1 => (bytes_per_block = <<0, 0>> /\ RetuneIdle)

\* a push-mode run with one -f that handled three chunks and has ended
C13_Witness ==
    /\ freq_count = 1 /\ PushMode
    /\ Len(chunks) = 3 /\ written > 0
    /\ main_pc = "done"
    /\ hw_freq = frequency1 /\ worker_pc = "none"

(* ---- C14 --------------------------------------------------------------- *)
\* C14: in pull mode (-S), also with two -f, whatever chunks the sync loop
\* reads, bytes_in_block and current_freq_idx keep their initial values,
\* nothing is posted, no worker is started and the tuner stays at
\* frequency1.
C14_PullModeNoAccounting ==
    sync_mode = 1 => RetuneIdle

\* a pull-mode run with two -f that has read and written more than both
\* block sizes together, and yet no boundary was accounted
C14_Witness ==
    /\ sync_mode = 1 /\ freq_count >= 2
    /\ bytes_per_block[1] > 0
    /\ written >= bytes_per_block[1] + bytes_per_block[2]
    /\ bytes_in_block = 0 /\ current_freq_idx = 0
    /\ posted = <<>> /\ hw_freq = frequency1

(* ---- C15 --------------------------------------------------------------- *)
\* a step taken by the delivery thread inside rtlsdr_callback
HandlerStep == main_pc = "async" /\ (cb_pc' # cb_pc \/ n_calls' # n_calls)

\* C15: no step of the handler changes the tuner: at a boundary the handler
\* only stores the new channel's frequency in the mailbox and wakes the
\* waiting worker; the tuner is set by the initial tuning of main and, after
\* that, by the worker's retune step alone.
C15_HandlerNeverRetunes ==
    [][/\ HandlerStep => (hw_freq' = hw_freq /\ applied' = applied)
       /\ (HandlerStep /\ cb_pc = "post")
            => /\ retune_freq' = ChannelFreq(current_freq_idx)
               /\ posted' = Append(posted, retune_freq')
               /\ worker_pc = "wait" => worker_pc' = "woken"
       /\ hw_freq' # hw_freq
            => \/ main_pc = "open" /\ main_pc' # "open"
               \/ /\ worker_pc = "retune" /\ worker_pc' = "top"
                  /\ applied' = Append(applied, hw_freq')]_vars

\* two boundaries handled: the worker applied the first post and the second
\* is still in the mailbox, the tuner being where the worker left it
C15_Witness ==
    /\ Alternating /\ PushMode /\ frequency2 # 0
    /\ posted = <<frequency2, frequency1>>
    /\ applied = <<frequency2>>
    /\ retune_freq = frequency1
    /\ hw_freq = frequency2
    /\ cb_pc = "idle"

(* ---- C16 --------------------------------------------------------------- *)
\* C16: the worker holds the mailbox lock exactly from its lock (or its
\* return from the wait) to the unlock after taking the slot, never while
\* it is in verbose_set_frequency; the handler has no waiting state of its
\* own (it is idle, in its body or at the post); so a post attempted while
\* the worker retunes can take the lock at once.
C16_PostNeverWaitsForRetune ==
    /\ retune_mutex \in {"free", "worker"}
    /\ retune_mutex = "worker" <=> worker_pc \in {"check", "towait", "take"}
    /\ cb_pc \in {"idle", "body", "post"}
    /\ (cb_pc = "post" /\ worker_pc = "retune")
            => (retune_mutex = "free" /\ ENABLED CbPost)

\* the worker is applying the first post and the handler has already
\* stored the second one
C16_Witness ==
    /\ Alternating /\ PushMode
    /\ worker_pc = "retune" /\ freq # 0
    /\ Len(posted) = 2 /\ taken = <<1>> /\ applied = <<>>
    /\ retune_freq = posted[2] /\ retune_freq # 0
    /\ cb_pc = "idle"

(* ---- C17 --------------------------------------------------------------- *)
\* C17: in alternation push mode the controller is past the join (closing
\* the device, or done) only when the worker has returned, and as long as
\* the worker has not returned the device is open: no retune can follow
\* rtlsdr_close, whether or not a frequency is left in the mailbox.
C17_JoinBeforeClose ==
    (freq_count >= 2 /\ PushMode)
        => /\ main_pc \in {"close", "done"} => worker_pc = "exited"
           /\ WorkerAlive => dev_open
           /\ (worker_pc = "retune" /\ freq # 0) => dev_open

\* the run has ended and the device is closed; the worker returned on
\* seeing the flag and a posted frequency was left in the mailbox
C17_Witness ==
    /\ freq_count >= 2 /\ PushMode
    /\ main_pc = "done" /\ ~dev_open
    /\ worker_pc = "exited"
    /\ retune_freq # 0
    /\ Len(applied) < Len(posted)

(* ---- C18 --------------------------------------------------------------- *)
\* the worker is idle: blocked in pthread_cond_wait on an empty mailbox,
\* both frequencies nonzero, the shutdown flag not set
WorkerIdle ==
    /\ Alternating /\ PushMode
    /\ frequency1 # 0 /\ frequency2 # 0
    /\ do_exit = 0
    /\ retune_freq = 0 /\ worker_pc = "wait"

\* C18 (as claimed): whenever the worker is idle, the frequency last
\* applied to the hardware is that of the accountant's active channel
\* (stated for the runs in which the sink accepted every write in full).
C18_TunerFollowsAccountant ==
    (WorkerIdle /\ ~short_write) => hw_freq = ChannelFreq(current_freq_idx)

\* C18 (amended): ... whenever the worker is idle and the handler is not
\* between its flip of current_freq_idx and its post.
C18_TunerFollowsBetweenChunks ==
    (WorkerIdle /\ cb_pc # "post") => hw_freq = ChannelFreq(current_freq_idx)

\* two posts, the first overwritten before the worker took the slot: the
\* worker applied the second and waits again, the tuner on channel 0 as
\* the accountant
C18_Witness ==
    /\ WorkerIdle /\ cb_pc = "idle"
    /\ posted = <<frequency2, frequency1>>
    /\ taken = <<2>> /\ applied = <<frequency1>>
    /\ current_freq_idx = 0 /\ hw_freq = frequency1

(* ---- C19 --------------------------------------------------------------- *)
\* the worker has applied the k-th post
AppliedPost(k) == \E i \in 1..Len(applied) : taken[i] = k

\* C19: under fair scheduling, whatever the configured frequencies (0 Hz
\* included), the k-th post (the latest one as long as no other follows) is
\* eventually applied by the worker or overwritten by a later post, unless
\* the shutdown flag is set.
C19_PostEventuallyServed ==
    \A k \in 1..MaxChunks :
        (Len(posted) = k)
            ~> (AppliedPost(k) \/ Len(posted) > k \/ do_exit = 1)

(* ---- C20 --------------------------------------------------------------- *)
\* C20 (as claimed): in push mode the output never grows once do_exit is
\* set (stated for the steps in which the sink accepts the write in full).
C20_NoGrowthAfterExit ==
    [][(PushMode /\ do_exit = 1 /\ ~short_write') => written' = written]_vars

\* C20 (amended): in push mode, once do_exit is set and no invocation of the
\* handler is under way, every later invocation returns at once: nothing is
\* written, the cap, bytes_in_block and current_freq_idx keep their values
\* and nothing is posted.
C20_LaterInvocationsNoOp ==
    [][(PushMode /\ do_exit = 1 /\ cb_pc = "idle")
        => /\ cb_pc' = "idle"
           /\ written' = written
           /\ chunks' = chunks
           /\ bytes_to_read' = bytes_to_read
           /\ bytes_in_block' = bytes_in_block
           /\ current_freq_idx' = current_freq_idx
           /\ posted' = posted]_vars

\* the handler was invoked after the flag was set and returned at once: one
\* invocation more than chunks handled
C20_Witness ==
    /\ PushMode /\ do_exit = 1
    /\ cb_pc = "idle"
    /\ written > 0
    /\ n_calls > Len(chunks)

====
